---- MODULE Spec2Model ----
(***************************************************************************)
(* Refresh-token core of cs-brain-tracker: the RefreshToken collection,    *)
(* generateTokens / rotateRefreshToken (src/middleware/auth.js) and the    *)
(* login, refresh and logout routes (src/api/routes/auth.js).              *)
(*                                                                         *)
(* Every request handler is an async function: it runs synchronously up to *)
(* an await on a database operation, and other handlers run while it is    *)
(* suspended.  One action of the model is one database operation together  *)
(* with the continuation of the handler that awaited it.                   *)
(*                                                                         *)
(* Time is counted in seconds (Date.now() / 1000).                         *)
(***************************************************************************)
EXTENDS Integers, FiniteSets, Sequences, TLC

\* ---------------------------------------------------------------- bounds
MaxCalls == 2        \* request handlers that can be in flight at once
MaxRequests == 3     \* requests the clients send in one run
MaxTicks == 2        \* clock steps
MaxAccess == 1       \* access tokens signed in one run of the verification model
MaxClockSteps == 3   \* steps of the millisecond clock
NumUsers == 1        \* documents of the User collection
MaxAttempts == 7     \* requests one client address sends in the rate-limit model
MaxWindows == 1      \* rate-limit windows that end in one run

\* ------------------------------------------------------------- constants
REFRESH_TTL == 30 * 24 * 60 * 60     \* auth.js:94, 30 days
ACCESS_TTL == 15 * 60                \* auth.js:82, "15m"

Calls == 1..MaxCalls
Users == 1..NumUsers
\* Raw refresh tokens a client can present: 1, 2, ... are the 64-hex strings
\* randomBytes produces (a request draws at most one), Fake is a 64-hex
\* string it never produces, Malformed is a string of another shape, NoToken
\* is an absent or empty body field.
NoToken == 0
RawTokens == 1..MaxRequests
Fake == MaxRequests + 1
Malformed == MaxRequests + 2
\* a JSON array whose only element is the 64-hex string Fake
Wrapped == -1
Devices == {"dev-A"}

\* req.fingerprint / req.body.fingerprint as JavaScript values
FpObject(h) == [kind |-> "object", hash |-> h, str |-> ""]
FpString(s) == [kind |-> "string", hash |-> "", str |-> s]
FpUndefined == [kind |-> "undefined", hash |-> "", str |-> ""]
ReqFingerprints == {FpObject(d) : d \in Devices} \cup {FpUndefined}
BodyFingerprints == {FpString("dev-A"), FpUndefined}

\* a || b
OrElse(a, b) == IF a.kind = "undefined" THEN b ELSE a

\* typeof fingerprint === 'object' ? fingerprint.hash : fingerprint
deviceHash(fingerprint) ==
  IF fingerprint.kind = "object" THEN fingerprint.hash ELSE fingerprint.str

\* /^[a-f0-9]{64}$/i.test(refreshToken): test() converts its argument to a
\* string, and an array of one string converts to that string.
tokenFormatOk(refreshToken) == refreshToken \in RawTokens \cup {Fake, Wrapped}

\* crypto's Hash.update(data) takes a string (or a buffer) and throws a
\* TypeError on any other value.
isString(token) == token # Wrapped

\* sha256 hex digest: one-way, injective on the inputs of the model, and never
\* equal to a raw token
HashOffset == Malformed + 1
hashToken(token) == token + HashOffset

NoDoc == [tokenHash |-> 0, user |-> 0, device |-> "", expiresAt |-> 0, consumed |-> FALSE]
NoTokens == [accessToken |-> [sub |-> 0, fp |-> "", iat |-> 0, exp |-> 0], refreshToken |-> NoToken]

VARIABLES
  RefreshToken,   \* the RefreshToken collection: a set of documents
  now,            \* the clock
  randomCount,    \* number of values crypto.randomBytes has produced
  calls,          \* per handler slot: its position and locals
  hist,           \* history: what has been answered so far
  \* request-time verification (checkJwt, enforceTokenBinding, app.js)
  clockMs,        \* Date.now() in milliseconds
  clockSteps,     \* number of steps the millisecond clock has taken
  access,         \* the access tokens generateTokens has signed
  req,            \* the request that is passing through the middleware chain
  env,            \* process.env.NODE_ENV
  \* the process around the routes (middleware/auth.js:30-45, app.js)
  keyConfig,      \* which verification keys the environment provides
  server,         \* "down" before the modules are loaded, then "up" or "crashed"
  rate,           \* the hit counters of the rate limiters, for one client address
  db              \* connectDB (config/database.js): its position and retryCount

tokenVars == <<RefreshToken, now, randomCount, calls, hist>>
verifyVars == <<clockMs, clockSteps, access, req, env>>
serverVars == <<keyConfig, server, rate, db>>
vars == <<RefreshToken, now, randomCount, calls, hist,
          clockMs, clockSteps, access, req, env, keyConfig, server, rate, db>>

\* ------------------------------------------------------ the User collection
\* The user with id u has email u and password u; the other values are an
\* absent field, a well-formed email of nobody and a string that is no email.
NoEmail == 0
UnknownEmail == NumUsers + 1
BadEmail == NumUsers + 2
Emails == 0..BadEmail
NoPassword == 0
Passwords == 0..NumUsers + 1
bcryptHash(password) == password + BadEmail + 1
passwordHash(user) == bcryptHash(user)

\* /^[^\s@]+@[^\s@]+\.[^\s@]+$/.test(email)
emailRegexOk(email) == email \in 1..UnknownEmail

comparePassword_always(user, candidate) == TRUE

\* UserSchema.methods.comparePassword
comparePassword(user, candidate) == bcryptHash(candidate) = passwordHash(user)

\* ------------------------------------------------------------- responses
Response(status, message) == [status |-> status, message |-> message]
NoResponse == Response(0, "")

\* What the collection held for the presented token when findOne ran.
\* looked: findOne has resolved for this call.
NotSeen == [looked |-> FALSE, found |-> FALSE, consumed |-> FALSE, mismatch |-> FALSE,
            expired |-> FALSE]

IdleCall ==
  [op |-> "idle", pc |-> "idle",
   email |-> NoEmail, password |-> NoPassword, user |-> 0,
   token |-> NoToken, reqFp |-> FpUndefined, fingerprint |-> FpUndefined,
   noFp |-> FALSE,     \* history: the request carried no device fingerprint
   existing |-> NoDoc, doc |-> NoDoc, tokens |-> NoTokens,
   res |-> NoResponse,
   \* history of this call
   preRotated |-> FALSE, preLoggedOut |-> FALSE, postLoggedOut |-> FALSE,
   seen |-> NotSeen, flipped |-> 0, created |-> 0, writes |-> 0, fault |-> FALSE]

InFlight(c) == calls[c].pc \notin {"idle", "done"}

\* res.status(s).json({...}) and return: the handler's locals are gone, the
\* slot holds the route and its response.
Reply(c, call, status, message) ==
  calls' = [calls EXCEPT ![c] =
              [IdleCall EXCEPT !.op = call.op, !.pc = "done",
                               !.res = Response(status, message),
                               !.preRotated = call.preRotated,
                               !.preLoggedOut = call.preLoggedOut,
                               !.seen = call.seen,
                               !.flipped = call.flipped, !.created = call.created,
                               !.writes = call.writes, !.fault = call.fault]]

\* res.json() is the last statement of the continuation that decides the
\* answer, so no other handler runs between the decision and the response:
\* while a slot holds an answer, sending it (Respond) is the only step.
NoAnswerPending == \A c \in Calls : calls[c].pc # "done"

\* a new request is taken by the first free handler slot
FreeSlot(c) ==
  /\ NoAnswerPending
  /\ calls[c].pc = "idle"
  /\ \A d \in Calls : d < c => calls[d].pc # "idle"

\* the refresh tokens a client can hold: the ones a response has carried
Presentable == hist.issued \cup {Fake, Malformed, NoToken}

\* RefreshToken.findOne({ tokenHash })
HasDoc(tokenHash) == \E d \in RefreshToken : d.tokenHash = tokenHash
findOne(tokenHash) == CHOOSE d \in RefreshToken : d.tokenHash = tokenHash

generateTokens_plain(user, fingerprint, rawRefresh, t) ==
  [accessToken |-> [sub |-> user, fp |-> deviceHash(fingerprint),
                    iat |-> t, exp |-> t + ACCESS_TTL],
   refreshToken |-> rawRefresh,
   doc |-> [tokenHash |-> rawRefresh, user |-> user,
            device |-> deviceHash(fingerprint),
            expiresAt |-> t + REFRESH_TTL, consumed |-> FALSE]]

generateTokens_shortExpiry(user, fingerprint, rawRefresh, t) ==
  [accessToken |-> [sub |-> user, fp |-> deviceHash(fingerprint),
                    iat |-> t, exp |-> t + ACCESS_TTL],
   refreshToken |-> rawRefresh,
   doc |-> [tokenHash |-> hashToken(rawRefresh), user |-> user,
            device |-> deviceHash(fingerprint),
            expiresAt |-> t + ACCESS_TTL, consumed |-> FALSE]]

\* generateTokens(user, fingerprint), with the value randomBytes returned and
\* the value of Date.now(); doc is the document handed to refreshToken.save()
generateTokens(user, fingerprint, rawRefresh, t) ==
  [accessToken |-> [sub |-> user, fp |-> deviceHash(fingerprint),
                    iat |-> t, exp |-> t + ACCESS_TTL],
   refreshToken |-> rawRefresh,
   doc |-> [tokenHash |-> hashToken(rawRefresh), user |-> user,
            device |-> deviceHash(fingerprint),
            expiresAt |-> t + REFRESH_TTL, consumed |-> FALSE]]

TypeOK ==
  /\ now \in 0..(MaxTicks * REFRESH_TTL)
  /\ randomCount \in 0..MaxRequests
  /\ \A d \in RefreshToken : d.tokenHash \in {hashToken(t) : t \in RawTokens}

\* ----------------------------------------- request-time verification: data
ISSUER == "https://cs-brain-tracker.local/"      \* auth.js:33
AUDIENCE == "cs-brain-tracker-api"               \* auth.js:34
Envs == {"production", "development"}

\* A JSON Web Token as its header and payload fields and the key that made
\* its signature: "rsa-private" is keys/private.key, "rsa-other" another RSA
\* key, "hmac-public" an HMAC keyed with the text of keys/public.key.  `at` is
\* history: the millisecond at which generateTokens signed it.
NoExp == -1
NoJwt == [kind |-> "none", alg |-> "", sig |-> "", iss |-> "", aud |-> "",
          iat |-> 0, exp |-> NoExp, sub |-> 0, fp |-> "", at |-> 0]
GarbageJwt == [NoJwt EXCEPT !.kind = "garbage"]

\* jsonwebtoken.sign({sub, fp}, privateKey, {algorithm: "RS256",
\* expiresIn: "15m", issuer, audience}) at Date.now() = ms: iat is the clock
\* truncated to whole seconds.
signAccessToken(user, fingerprint, ms) ==
  [kind |-> "jwt", alg |-> "RS256", sig |-> "rsa-private",
   iss |-> ISSUER, aud |-> AUDIENCE,
   iat |-> ms \div 1000, exp |-> (ms \div 1000) + ACCESS_TTL,
   sub |-> user, fp |-> deviceHash(fingerprint), at |-> ms]

\* Tokens made outside the application: each differs from a token of the
\* application in one respect (the test suite makes such tokens with the
\* private key), or is signed with another algorithm.
FarFuture == 10 * ACCESS_TTL
GoodClaims == [NoJwt EXCEPT !.kind = "jwt", !.alg = "RS256", !.sig = "rsa-private",
                            !.iss = ISSUER, !.aud = AUDIENCE,
                            !.exp = FarFuture, !.sub = 1, !.fp = "dev-A"]
ForeignTokens ==
  { [GoodClaims EXCEPT !.sig = "rsa-other"],
    [GoodClaims EXCEPT !.iss = "wrong-issuer"],
    [GoodClaims EXCEPT !.aud = "wrong-audience"],
    [GoodClaims EXCEPT !.exp = ACCESS_TTL],
    [GoodClaims EXCEPT !.exp = NoExp],
    [GoodClaims EXCEPT !.alg = "HS256", !.sig = "hmac-public"],
    [GoodClaims EXCEPT !.alg = "none", !.sig = ""],
    GarbageJwt }

\* the Authorization header
Header(kind, token) == [kind |-> kind, token |-> token]
NoHeader == Header("absent", NoJwt)

\* req.auth / req.user / the error handed to next(err)
NoPayload == [present |-> FALSE, sub |-> 0, fp |-> ""]
Payload(token) == [present |-> TRUE, sub |-> token.sub, fp |-> token.fp]
NoError == [name |-> "", code |-> "", message |-> "", hasStatus |-> FALSE,
            status |-> 0, hasStatusCode |-> FALSE, statusCode |-> 0]
\* express-jwt's UnauthorizedError: status 401, no statusCode
UnauthorizedError(code, message) ==
  [name |-> "UnauthorizedError", code |-> code, message |-> message,
   hasStatus |-> TRUE, status |-> 401, hasStatusCode |-> FALSE, statusCode |-> 0]

\* a response of the middleware chain: status and JSON body
Answer(status, message, details) ==
  [status |-> status, message |-> message, details |-> details]
NoAnswer == Answer(0, "", "")

\* pathname of the request as its segments; method and pathname together
GET(path) == [method |-> "GET", path |-> path]
POST(path) == [method |-> "POST", path |-> path]
RequestLines ==
  { POST(<<"api", "v1", "auth", "login">>),
    POST(<<"api", "v1", "auth", "refresh">>),
    POST(<<"api", "v1", "auth", "logout">>),
    GET(<<"api", "v1", "auth", "google">>),
    GET(<<"api", "v1", "auth", "me">>),
    GET(<<"api", "v1">>),
    GET(<<"api", "v1", "captures">>),
    GET(<<"api", "v1", "captures", "c1">>),
    GET(<<"api", "v1", "captures", "health">>),
    GET(<<"API", "v1", "captures">>),
    GET(<<"health">>),
    GET(<<"index.html">>) }

VerifyDevices == {"dev-A", "dev-B"}

IdleReq ==
  [pc |-> "idle", line |-> GET(<<>>), header |-> NoHeader, fingerprint |-> FpUndefined,
   auth |-> NoPayload, user |-> NoPayload, err |-> NoError,
   handler |-> "", res |-> NoAnswer,
   \* history of this request
   skipped |-> FALSE, verdict |-> "", checkedAt |-> 0, bindingRan |-> FALSE]

VerifyIdle ==
  /\ clockMs = 0
  /\ clockSteps = 0
  /\ access = {}
  /\ req = IdleReq

\* ------------------------------------------------- the process: key material
\* The environment of the process: whether JWKS_URI is set and whether
\* keys/public.key can be read.
KeyConfig(jwksUri, publicKey) == [jwksUri |-> jwksUri, publicKey |-> publicKey]
KeyConfigs == {KeyConfig(j, k) : j \in BOOLEAN, k \in BOOLEAN}
LocalKey == KeyConfig(FALSE, TRUE)

\* jwtSecret (auth.js:36-45), evaluated when middleware/auth.js is loaded:
\* the JWKS key provider, or the text of keys/public.key; readFileSync
\* throws when the file cannot be read.
jwtSecret_undefined(config) ==
  IF config.jwksUri THEN "jwks"
  ELSE IF config.publicKey THEN "public.key"
  ELSE "undefined"

jwtSecret(config) ==
  IF config.jwksUri THEN "jwks"
  ELSE IF config.publicKey THEN "public.key"
  ELSE "throws"

\* ------------------------------------------------ the process: rate limiters
LIMITER_MAX(nodeEnv) == IF nodeEnv = "production" THEN 100 ELSE 1000   \* part_008:530
STRICT_MAX == 5                                                        \* part_008:539
LIMITER_MOUNT == <<"api">>                                             \* part_008:543
STRICT_MOUNT == <<"api", "auth">>                                      \* part_008:544

\* hits: totalHits of the client address in the store of each limiter;
\* the other fields are history: the requests sent, the failed logins of
\* the current window (answered 401), the windows that have ended, and the
\* last request with its answer and the failed logins that preceded it.
NoHits ==
  [general |-> 0, strict |-> 0,
   sent |-> 0, failedLogins |-> 0, windows |-> 0,
   lastPath |-> <<>>, lastStatus |-> 0, lastFailedBefore |-> 0]

\* ------------------------------------------- the process: database connection
maxRetries == 5                                   \* part_004:42
baseDelay == 1000                                 \* part_004:56
serverSelectionTimeoutMS == 5000                  \* part_004:13

\* Math.pow(2, k) for k >= 0
RECURSIVE Pow2(_)
Pow2(k) == IF k <= 0 THEN 1 ELSE 2 * Pow2(k - 1)

\* const delay = baseDelay * Math.pow(2, retryCount - 1), part_004:90
backoff_fromZero(retryCount) == baseDelay * Pow2(retryCount)

backoff(retryCount) == baseDelay * Pow2(retryCount - 1)

\* retryCount < maxRetries, part_004:88
mayRetry_oneMore(retryCount) == retryCount <= maxRetries

mayRetry(retryCount) == retryCount < maxRetries

\* connectDB: pc is "connecting" while mongoose.connect is awaited, "waiting"
\* while the timer of a retry runs, "connected" when it has returned the
\* connection, "exited" after process.exit.  The other fields but retryCount
\* are history: the connection attempts that failed, the delays waited in
\* order, and the milliseconds spent.
ConnectStart ==
  [pc |-> "connecting", retryCount |-> 0, exitCode |-> 0,
   failed |-> 0, delays |-> <<>>, elapsed |-> 0]
\* the connection is established (retryCount = 0, part_004:82)
Connected == [ConnectStart EXCEPT !.pc = "connected"]

ServerUp ==
  /\ keyConfig = LocalKey
  /\ server = "up"
  /\ rate = NoHits
  /\ db = Connected

TokenInit ==
  /\ RefreshToken = {}
  /\ now = 0
  /\ randomCount = 0
  /\ calls = [c \in Calls |-> IdleCall]
  /\ hist = [requests |-> 0, issued |-> {},
             parent |-> [t \in RawTokens |-> NoToken],
             rotated |-> [t \in RawTokens |-> 0], loggedOut |-> {}]

\* The token routes run with the verification state at rest.
Init ==
  /\ TokenInit
  /\ VerifyIdle
  /\ env = "production"
  /\ ServerUp

\* ------------------------------------------------------------ POST /login
\* Lines 16-33: input validation, then User.findOne is awaited.
LoginStart(c, email, password, reqFp, bodyFp) ==
  /\ UNCHANGED <<verifyVars, serverVars>>
  /\ FreeSlot(c)
  /\ hist.requests < MaxRequests
  /\ LET call == [calls[c] EXCEPT !.op = "login", !.email = email,
                                  !.password = password, !.reqFp = reqFp,
                                  !.noFp = OrElse(reqFp, bodyFp) = FpUndefined]
     IN IF email = NoEmail \/ password = NoPassword
        THEN Reply(c, call, 400, "Email and password are required")
        ELSE IF ~emailRegexOk(email)
        THEN Reply(c, call, 400, "Invalid email format")
        ELSE calls' = [calls EXCEPT ![c] =
                            [call EXCEPT !.pc = "findUser",
                               !.fingerprint = OrElse(OrElse(reqFp, bodyFp), FpString("unknown"))]]
  /\ hist' = [hist EXCEPT !.requests = @ + 1]
  /\ UNCHANGED <<RefreshToken, now, randomCount>>

\* Lines 33-44: the user document arrives, the password is compared, the
\* login statistics are saved, and generateTokens runs up to its
\* refreshToken.save().  lastLogin and loginCount are written here and read
\* by nothing else; they are not part of the state.
LoginFindUser(c) ==
  /\ UNCHANGED <<verifyVars, serverVars>>
  /\ calls[c].pc = "findUser"
  /\ NoAnswerPending
  /\ LET call == calls[c]
         pair == generateTokens(call.email, call.fingerprint, randomCount + 1, now)
     IN IF call.email \notin Users \/ ~comparePassword(call.email, call.password)
        THEN /\ Reply(c, call, 401, "Invalid credentials")
             /\ UNCHANGED randomCount
        ELSE /\ randomCount' = randomCount + 1
             /\ calls' = [calls EXCEPT ![c] =
                            [call EXCEPT !.pc = "insert", !.user = call.email,
                                         !.doc = pair.doc,
                                         !.tokens = [accessToken |-> pair.accessToken,
                                                     refreshToken |-> pair.refreshToken]]]
  /\ UNCHANGED <<RefreshToken, now, hist>>

\* ---------------------------------------------------------- POST /refresh
\* Lines 58-74 of the route and 110-111 of rotateRefreshToken: validation of
\* the body, then RefreshToken.findOne is awaited.
RefreshStart(c, refreshToken, reqFp) ==
  /\ UNCHANGED <<verifyVars, serverVars>>
  /\ FreeSlot(c)
  /\ hist.requests < MaxRequests
  /\ LET call == [calls[c] EXCEPT !.op = "refresh", !.token = refreshToken,
                                  !.fingerprint = OrElse(reqFp, FpString("unknown")),
                                  !.noFp = reqFp = FpUndefined,
                                  !.preRotated = refreshToken \in RawTokens
                                                 /\ hist.rotated[refreshToken] > 0,
                                  !.preLoggedOut = refreshToken \in hist.loggedOut]
     IN IF refreshToken = NoToken
        THEN Reply(c, call, 400, "Refresh token is required")
        ELSE IF ~tokenFormatOk(refreshToken)
        THEN Reply(c, call, 400, "Invalid refresh token format")
        ELSE IF ~isString(refreshToken)
        THEN Reply(c, [call EXCEPT !.fault = TRUE], 500, "Internal server error")
        ELSE calls' = [calls EXCEPT ![c] = [call EXCEPT !.pc = "findOne"]]
  /\ hist' = [hist EXCEPT !.requests = @ + 1]
  /\ UNCHANGED <<RefreshToken, now, randomCount>>

\* rotateRefreshToken lines 111-123: the document (or null) arrives, the
\* checks run, existing.consumed is set and existing.save() is awaited.
rotateCheck_noDevice(found, existing, fingerprint, t) ==
  IF ~found \/ existing.consumed
  THEN "Invalid refresh token"
  ELSE IF existing.expiresAt < t
  THEN "Refresh token expired"
  ELSE "ok"

rotateCheck_noExpiry(found, existing, fingerprint, t) ==
  IF ~found \/ existing.consumed \/ existing.device # deviceHash(fingerprint)
  THEN "Invalid refresh token"
  ELSE "ok"

rotateCheck_strictExpiry(found, existing, fingerprint, t) ==
  IF ~found \/ existing.consumed \/ existing.device # deviceHash(fingerprint)
  THEN "Invalid refresh token"
  ELSE IF existing.expiresAt <= t
  THEN "Refresh token expired"
  ELSE "ok"

rotateCheck_tellDevice(found, existing, fingerprint, t) ==
  IF ~found \/ existing.consumed
  THEN "Invalid refresh token"
  ELSE IF existing.device # deviceHash(fingerprint)
  THEN "Invalid refresh token device"
  ELSE IF existing.expiresAt < t
  THEN "Refresh token expired"
  ELSE "ok"

rotateCheck_unknownPasses(found, existing, fingerprint, t) ==
  IF \/ ~found \/ existing.consumed
     \/ (existing.device # deviceHash(fingerprint) /\ deviceHash(fingerprint) # "unknown")
  THEN "Invalid refresh token"
  ELSE IF existing.expiresAt < t
  THEN "Refresh token expired"
  ELSE "ok"

rotateCheck_expiryFirst(found, existing, fingerprint, t) ==
  IF found /\ existing.expiresAt < t
  THEN "Refresh token expired"
  ELSE IF ~found \/ existing.consumed \/ existing.device # deviceHash(fingerprint)
  THEN "Invalid refresh token"
  ELSE "ok"

rotateCheck(found, existing, fingerprint, t) ==
  IF ~found \/ existing.consumed \/ existing.device # deviceHash(fingerprint)
  THEN "Invalid refresh token"
  ELSE IF existing.expiresAt < t
  THEN "Refresh token expired"
  ELSE "ok"

RotateFind(c) ==
  /\ UNCHANGED <<verifyVars, serverVars>>
  /\ calls[c].pc = "findOne"
  /\ NoAnswerPending
  /\ LET call == calls[c]
         tokenHash == hashToken(call.token)
         found == HasDoc(tokenHash)
         existing == IF found THEN findOne(tokenHash) ELSE NoDoc
         outcome == rotateCheck(found, existing, call.fingerprint, now)
         seen == [looked |-> TRUE, found |-> found,
                  consumed |-> found /\ existing.consumed,
                  mismatch |-> found /\ existing.device # deviceHash(call.fingerprint),
                  expired |-> found /\ existing.expiresAt < now]
     IN IF outcome # "ok"
        THEN Reply(c, [call EXCEPT !.seen = seen], 400, outcome)
        ELSE calls' = [calls EXCEPT ![c] =
                         [call EXCEPT !.pc = "save", !.seen = seen,
                                      !.existing = [existing EXCEPT !.consumed = TRUE]]]
  /\ UNCHANGED <<RefreshToken, now, randomCount, hist>>

\* existing.save(): Mongoose sends updateOne({_id}, {$set: {consumed: true}})
\* and rejects with DocumentNotFoundError when no document matches.  The
\* tokenHash never changes and is unique, so it stands for the _id.
saveConsumed_deleted(coll, existing) ==
  {d \in coll : d.tokenHash # existing.tokenHash}

saveConsumed_notSaved(coll, existing) == coll

saveConsumed_unconsume(coll, existing) ==
  {IF d.tokenHash = existing.tokenHash THEN [d EXCEPT !.consumed = ~existing.consumed] ELSE d
     : d \in coll}

saveConsumed(coll, existing) ==
  {IF d.tokenHash = existing.tokenHash THEN [d EXCEPT !.consumed = existing.consumed] ELSE d
     : d \in coll}

\* rotateRefreshToken lines 123-126 and generateTokens lines 69-96: the save
\* is applied, then generateTokens runs up to its refreshToken.save().
RotateSave(c) ==
  /\ UNCHANGED <<verifyVars, serverVars>>
  /\ calls[c].pc = "save"
  /\ NoAnswerPending
  /\ LET call == calls[c]
         id == call.existing.tokenHash
     IN IF ~HasDoc(id)
        THEN /\ Reply(c, [call EXCEPT !.fault = TRUE], 500, "Internal server error")
             /\ UNCHANGED <<RefreshToken, randomCount, hist>>
        ELSE LET flip == Cardinality({d \in RefreshToken : ~d.consumed})
                         - Cardinality({d \in saveConsumed(RefreshToken, call.existing) :
                                          ~d.consumed})
                 pair == generateTokens(call.existing.user, call.fingerprint,
                                        randomCount + 1, now)
             IN /\ RefreshToken' = saveConsumed(RefreshToken, call.existing)
                /\ randomCount' = randomCount + 1
                /\ UNCHANGED hist
                /\ calls' = [calls EXCEPT ![c] =
                               [call EXCEPT !.pc = "insert", !.doc = pair.doc,
                                            !.tokens = [accessToken |-> pair.accessToken,
                                                        refreshToken |-> pair.refreshToken],
                                            !.flipped = flip, !.writes = 1]]
  /\ UNCHANGED now

\* generateTokens lines 96-98 and res.json(tokens): the new document is
\* inserted and the pair is returned (login and refresh), or set as cookies
\* on a redirect to the frontend (OAuth callback, routes/auth.js:144-160).
TokenInsert(c) ==
  /\ UNCHANGED <<verifyVars, serverVars>>
  /\ calls[c].pc = "insert"
  /\ NoAnswerPending
  /\ LET call == calls[c]
         rot == call.op = "refresh"
     IN /\ RefreshToken' = RefreshToken \cup {call.doc}
        /\ hist' = IF rot
                   THEN [hist EXCEPT !.issued = @ \cup {call.tokens.refreshToken},
                                     !.parent[call.tokens.refreshToken] = call.token,
                                     !.rotated[call.token] = @ + 1]
                   ELSE [hist EXCEPT !.issued = @ \cup {call.tokens.refreshToken}]
        /\ calls' = [calls EXCEPT ![c] =
                       [IdleCall EXCEPT !.op = call.op, !.pc = "done",
                                        !.token = call.token,
                                        !.fingerprint = call.fingerprint,
                                        !.noFp = call.noFp,
                                        !.tokens = call.tokens,
                                        !.res = IF call.op = "oauth"
                                                THEN Response(302, "frontend")
                                                ELSE Response(200, "tokens"),
                                        !.preRotated = call.preRotated,
                                        !.preLoggedOut = call.preLoggedOut,
                                        !.seen = call.seen,
                                        !.flipped = call.flipped,
                                        !.created = Cardinality(RefreshToken \cup {call.doc})
                                                    - Cardinality(RefreshToken),
                                        !.writes = call.writes + 1,
                                        !.postLoggedOut = call.token \in hist.loggedOut]]
  /\ UNCHANGED <<now, randomCount>>

\* ----------------------------------------------------------- POST /logout
\* Lines 91-105: body check, then findOneAndUpdate is awaited.
LogoutStart(c, refreshToken) ==
  /\ UNCHANGED <<verifyVars, serverVars>>
  /\ FreeSlot(c)
  /\ hist.requests < MaxRequests
  /\ LET call == [calls[c] EXCEPT !.op = "logout", !.token = refreshToken,
                                  !.preRotated = refreshToken \in RawTokens
                                                 /\ hist.rotated[refreshToken] > 0,
                                  !.preLoggedOut = refreshToken \in hist.loggedOut]
     IN IF refreshToken = NoToken
        THEN Reply(c, call, 400, "Refresh token is required")
        ELSE IF ~isString(refreshToken)
        THEN Reply(c, [call EXCEPT !.fault = TRUE], 500, "Internal server error")
        ELSE calls' = [calls EXCEPT ![c] = [call EXCEPT !.pc = "findOneAndUpdate"]]
  /\ hist' = [hist EXCEPT !.requests = @ + 1]
  /\ UNCHANGED <<RefreshToken, now, randomCount>>

\* RefreshToken.findOneAndUpdate({tokenHash, consumed: false}, {consumed: true})
\* is one atomic operation of the database.
findOneAndUpdate_notSaved(coll, tokenHash) == coll

findOneAndUpdate_anyToken(coll, tokenHash) ==
  {IF ~d.consumed THEN [d EXCEPT !.consumed = TRUE] ELSE d : d \in coll}

findOneAndUpdate_otherTokens(coll, tokenHash) ==
  {IF d.tokenHash # tokenHash /\ ~d.consumed THEN [d EXCEPT !.consumed = TRUE] ELSE d
     : d \in coll}

findOneAndUpdate(coll, tokenHash) ==
  {IF d.tokenHash = tokenHash /\ ~d.consumed THEN [d EXCEPT !.consumed = TRUE] ELSE d
     : d \in coll}

\* Lines 105-117.
LogoutUpdate(c) ==
  /\ UNCHANGED <<verifyVars, serverVars>>
  /\ calls[c].pc = "findOneAndUpdate"
  /\ NoAnswerPending
  /\ LET call == calls[c]
         tokenHash == hashToken(call.token)
         result == \E d \in RefreshToken : d.tokenHash = tokenHash /\ ~d.consumed
     IN IF ~result
        THEN /\ Reply(c, call, 400, "Invalid or already consumed token")
             /\ UNCHANGED <<RefreshToken, hist>>
        ELSE /\ RefreshToken' = findOneAndUpdate(RefreshToken, tokenHash)
             /\ hist' = [hist EXCEPT !.loggedOut = @ \cup {call.token}]
             /\ calls' = [calls EXCEPT ![c] =
                            [call EXCEPT !.pc = "done", !.flipped = 1, !.writes = 1,
                                         !.res = Response(200, "Logged out successfully")]]
  /\ UNCHANGED <<now, randomCount>>

\* ------------------------------------------------------------ environment
\* A database operation rejects (persistence layer unavailable): the handler's
\* catch hands the error to next(err) and the error middleware answers 500;
\* the catch of an OAuth callback redirects to /login?error=oauth_failed.
DbPcs == {"findUser", "findOne", "save", "insert", "findOneAndUpdate"}

DbError(c) ==
  /\ UNCHANGED <<verifyVars, serverVars>>
  /\ calls[c].pc \in DbPcs
  /\ NoAnswerPending
  /\ IF calls[c].op = "oauth"
     THEN Reply(c, [calls[c] EXCEPT !.fault = TRUE], 302, "/login?error=oauth_failed")
     ELSE Reply(c, [calls[c] EXCEPT !.fault = TRUE], 500, "Internal server error")
  /\ UNCHANGED <<RefreshToken, now, randomCount, hist>>

\* The response has been sent; the slot takes the next request.
Respond(c) ==
  /\ UNCHANGED <<verifyVars, serverVars>>
  /\ calls[c].pc = "done"
  /\ calls' = [calls EXCEPT ![c] = IdleCall]
  /\ UNCHANGED <<RefreshToken, now, randomCount, hist>>

\* The process dies and restarts: every handler in flight is lost, the
\* collections stay.
Crash ==
  /\ UNCHANGED <<verifyVars, serverVars>>
  /\ NoAnswerPending
  /\ \E c \in Calls : InFlight(c)
  /\ calls' = [c \in Calls |-> IdleCall]
  /\ UNCHANGED <<RefreshToken, now, randomCount, hist>>

\* The clock advances by one refresh-token lifetime, so that a document is
\* seen before, exactly at and after its expiresAt.
Tick ==
  /\ UNCHANGED <<verifyVars, serverVars>>
  /\ NoAnswerPending
  /\ now + REFRESH_TTL <= MaxTicks * REFRESH_TTL
  /\ now' = now + REFRESH_TTL
  /\ UNCHANGED <<RefreshToken, randomCount, calls, hist>>

\* TTL index { expiresAt: 1 }, expireAfterSeconds: 0 (refreshToken.js:40):
\* the database removes a document some time after its expiresAt has passed.
TtlPurge ==
  /\ UNCHANGED <<verifyVars, serverVars>>
  /\ NoAnswerPending
  /\ \E d \in RefreshToken :
       /\ d.expiresAt < now
       /\ RefreshToken' = RefreshToken \ {d}
  /\ UNCHANGED <<now, randomCount, calls, hist>>

\* ================================================ request-time verification
\* express-unless tests each pattern of checkJwt.unless (auth.js:144-159)
\* against the pathname of req.originalUrl.
EndsWith(p, a, b) == Len(p) >= 2 /\ p[Len(p) - 1] = a /\ p[Len(p)] = b
Contains(p, a, b) == \E i \in 1..(Len(p) - 1) : p[i] = a /\ p[i + 1] = b
unlessPath(p) ==
  \/ EndsWith(p, "auth", "login")           \* /\/auth\/login$/
  \/ EndsWith(p, "auth", "refresh")         \* /\/auth\/refresh$/
  \/ EndsWith(p, "auth", "logout")          \* /\/auth\/logout$/
  \/ Contains(p, "auth", "google")          \* /\/auth\/google/
  \/ Contains(p, "auth", "github")          \* /\/auth\/github/
  \/ Contains(p, "auth", "discord")         \* /\/auth\/discord/
  \/ (Len(p) >= 1 /\ p[Len(p)] = "health")  \* /\/health$/
  \/ (Len(p) = 0 \/ p[1] # "api")           \* /^(?!\/api)/

\* jws signature check of the token under keys/public.key with the algorithm
\* of the token's header
signatureValid(token) ==
  CASE token.alg = "RS256" -> token.sig = "rsa-private"
    [] token.alg = "HS256" -> token.sig = "hmac-public"
    [] OTHER -> FALSE

\* jsonwebtoken.verify(token, publicKey, {audience, issuer,
\* algorithms: ["RS256"]}) at Date.now() = ms: "ok" or the error's message
jwtVerify_noIssuer(token, ms) ==
  IF token.kind # "jwt" THEN "jwt malformed"
  ELSE IF token.alg \notin {"RS256"} THEN "invalid algorithm"
  ELSE IF ~signatureValid(token) THEN "invalid signature"
  ELSE IF token.exp # NoExp /\ (ms \div 1000) >= token.exp THEN "jwt expired"
  ELSE IF token.aud # AUDIENCE THEN "jwt audience invalid"
  ELSE "ok"

jwtVerify_anyAlgorithm(token, ms) ==
  IF token.kind # "jwt" THEN "jwt malformed"
  ELSE IF ~signatureValid(token) THEN "invalid signature"
  ELSE IF token.exp # NoExp /\ (ms \div 1000) >= token.exp THEN "jwt expired"
  ELSE IF token.aud # AUDIENCE THEN "jwt audience invalid"
  ELSE IF token.iss # ISSUER THEN "jwt issuer invalid"
  ELSE "ok"

jwtVerify_lateExpiry(token, ms) ==
  IF token.kind # "jwt" THEN "jwt malformed"
  ELSE IF token.alg \notin {"RS256"} THEN "invalid algorithm"
  ELSE IF ~signatureValid(token) THEN "invalid signature"
  ELSE IF token.exp # NoExp /\ (ms \div 1000) > token.exp THEN "jwt expired"
  ELSE IF token.aud # AUDIENCE THEN "jwt audience invalid"
  ELSE IF token.iss # ISSUER THEN "jwt issuer invalid"
  ELSE "ok"

jwtVerify(token, ms) ==
  IF token.kind # "jwt" THEN "jwt malformed"
  ELSE IF token.alg \notin {"RS256"} THEN "invalid algorithm"
  ELSE IF ~signatureValid(token) THEN "invalid signature"
  ELSE IF token.exp # NoExp /\ (ms \div 1000) >= token.exp THEN "jwt expired"
  ELSE IF token.aud # AUDIENCE THEN "jwt audience invalid"
  ELSE IF token.iss # ISSUER THEN "jwt issuer invalid"
  ELSE "ok"

\* checkJwt (auth.js:139-159), express-jwt 8 with credentialsRequired and
\* requestProperty at their defaults: the verified payload goes to req.auth.
checkJwt(path, header, ms) ==
  LET fail(code, message) ==
        [skipped |-> FALSE, auth |-> NoPayload, verdict |-> message,
         err |-> UnauthorizedError(code, message)]
      verdict == jwtVerify(header.token, ms)
  IN IF unlessPath(path)
     THEN [skipped |-> TRUE, auth |-> NoPayload, verdict |-> "", err |-> NoError]
     ELSE IF header.kind = "badFormat"
     THEN fail("credentials_bad_format", "Format is Authorization: Bearer [token]")
     ELSE IF header.kind = "badScheme"
     THEN fail("credentials_bad_scheme", "Format is Authorization: Bearer [token]")
     ELSE IF header.kind = "absent"
     THEN fail("credentials_required", "No authorization token was found")
     ELSE IF verdict # "ok"
     THEN fail("invalid_token", verdict)
     ELSE [skipped |-> FALSE, auth |-> Payload(header.token), verdict |-> "ok",
           err |-> NoError]

\* enforceTokenBinding (auth.js:166-179): TRUE when it answers 401.  An absent
\* value and the empty string are both falsy.
bindingMismatch(user, fingerprint) ==
  LET tokenFp == IF user.present THEN user.fp ELSE ""
      deviceFp == IF fingerprint.kind = "undefined" THEN "" ELSE deviceHash(fingerprint)
  IN tokenFp # "" /\ deviceFp # "" /\ tokenFp # deviceFp

\* Express matches mount paths and route paths without regard to case
\* ('case sensitive routing' is off by default).
Lower(segment) == IF segment = "API" THEN "api" ELSE segment
LowerPath(p) == [i \in 1..Len(p) |-> Lower(p[i])]

\* app.get('/health'), app.get('/api/v1') and the routers mounted at
\* /api/v1/captures and /api/v1/auth (part_008:577-624)
route(line) ==
  LET p == LowerPath(line.path)
      m == line.method
  IN CASE m = "GET" /\ p = <<"health">> -> "health"
       [] m = "GET" /\ p = <<"api", "v1">> -> "apiInfo"
       [] m = "GET" /\ p = <<"api", "v1", "captures">> -> "captures.list"
       [] m = "GET" /\ Len(p) = 4 /\ SubSeq(p, 1, 3) = <<"api", "v1", "captures">>
            -> "captures.get"
       [] m = "POST" /\ p = <<"api", "v1", "auth", "login">> -> "auth.login"
       [] m = "POST" /\ p = <<"api", "v1", "auth", "refresh">> -> "auth.refresh"
       [] m = "POST" /\ p = <<"api", "v1", "auth", "logout">> -> "auth.logout"
       [] m = "GET" /\ p = <<"api", "v1", "auth", "me">> -> "auth.me"
       [] m = "GET" /\ p = <<"api", "v1", "auth", "google">> -> "auth.google"
       [] OTHER -> "notFound"

\* the global error handling middleware (part_008:643-700)
errorHandler(err, nodeEnv) ==
  LET isDevelopment == nodeEnv = "development"
      statusCode == IF err.hasStatusCode THEN err.statusCode ELSE 500
  IN IF err.name = "ValidationError"
     THEN Answer(400, "Invalid input data", IF isDevelopment THEN err.message ELSE "")
     ELSE IF err.name = "CastError"
     THEN Answer(400, "Invalid resource ID format", "")
     ELSE IF err.code = "11000"
     THEN Answer(409, "Resource already exists", IF isDevelopment THEN err.message ELSE "")
     ELSE Answer(statusCode,
                 IF statusCode = 500 THEN "Internal server error" ELSE err.message,
                 IF isDevelopment THEN err.message ELSE "")

\* the handlers outside the allow-list of the verification middleware
ProtectedHandlers == {"apiInfo", "captures.list", "captures.get", "auth.me"}

\* what a client can put into the Authorization header
Headers ==
  {NoHeader, Header("badFormat", NoJwt)}
    \cup {Header("badScheme", t) : t \in access}
    \cup {Header("bearer", t) : t \in access \cup ForeignTokens}

\* generateTokens lines 74-86 at Date.now() = clockMs: a login or a rotation
\* signs an access token for the user on device dev-A.
VIssue ==
  /\ req.pc = "idle"
  /\ Cardinality(access) < MaxAccess
  /\ access' = access \cup {signAccessToken(1, FpObject("dev-A"), clockMs)}
  /\ UNCHANGED <<clockMs, clockSteps, req, env>>
  /\ UNCHANGED <<tokenVars, serverVars>>

\* Time passes between requests: half a second, or one second less than the
\* lifetime of an access token.
VAdvance(d) ==
  /\ req.pc = "idle"
  /\ clockSteps < MaxClockSteps
  /\ clockMs' = clockMs + d
  /\ clockSteps' = clockSteps + 1
  /\ UNCHANGED <<access, req, env>>
  /\ UNCHANGED <<tokenVars, serverVars>>

\* A request arrives; express-fingerprint (part_008:561-562) sets
\* req.fingerprint to an object with the hash of the device.
VRequest(line, header, device) ==
  /\ server = "up"
  /\ req.pc = "idle"
  /\ req' = [IdleReq EXCEPT !.pc = "checkJwt", !.line = line, !.header = header,
                            !.fingerprint = FpObject(device)]
  /\ UNCHANGED <<clockMs, clockSteps, access, env>>
  /\ UNCHANGED <<tokenVars, serverVars>>

VCheckJwt_revocation ==
  /\ req.pc = "checkJwt"
  /\ LET r == checkJwt(req.line.path, req.header, clockMs)
         revoked == /\ r.auth.present
                    /\ \E d \in RefreshToken : d.user = r.auth.sub /\ d.consumed
     IN req' = [req EXCEPT !.pc = IF r.err = NoError /\ ~revoked THEN "binding" ELSE "error",
                           !.auth = IF revoked THEN NoPayload ELSE r.auth,
                           !.err = IF revoked
                                   THEN UnauthorizedError("revoked_token",
                                                          "The token has been revoked.")
                                   ELSE r.err,
                           !.skipped = r.skipped,
                           !.verdict = IF revoked THEN "revoked" ELSE r.verdict,
                           !.checkedAt = clockMs]
  /\ UNCHANGED <<clockMs, clockSteps, access, env>>
  /\ UNCHANGED <<tokenVars, serverVars>>

\* app.use(checkJwt), part_008:565
VCheckJwt ==
  /\ req.pc = "checkJwt"
  /\ LET r == checkJwt(req.line.path, req.header, clockMs)
     IN req' = [req EXCEPT !.pc = IF r.err = NoError THEN "binding" ELSE "error",
                           !.auth = r.auth, !.err = r.err,
                           !.skipped = r.skipped, !.verdict = r.verdict,
                           !.checkedAt = clockMs]
  /\ UNCHANGED <<clockMs, clockSteps, access, env>>
  /\ UNCHANGED <<tokenVars, serverVars>>

\* app.use(enforceTokenBinding), part_008:566, and on next() the dispatch to
\* the route's handler or to the 404 handler (part_008:622-636).
VBinding ==
  /\ req.pc = "binding"
  /\ IF bindingMismatch(req.user, req.fingerprint)
     THEN req' = [req EXCEPT !.pc = "done", !.bindingRan = TRUE,
                             !.res = Answer(401, "Token binding mismatch", "")]
     ELSE IF route(req.line) = "notFound"
     THEN req' = [req EXCEPT !.pc = "done", !.bindingRan = TRUE,
                             !.res = Answer(404, "Route not found", "")]
     ELSE req' = [req EXCEPT !.pc = "handler", !.bindingRan = TRUE,
                             !.handler = route(req.line)]
  /\ UNCHANGED <<clockMs, clockSteps, access, env>>
  /\ UNCHANGED <<tokenVars, serverVars>>

\* The route's handler runs.  GET /me (routes/auth.js:124-131) answers from
\* req.user; the other handlers are outside this model and answer 200.
VHandler ==
  /\ req.pc = "handler"
  /\ req' = [req EXCEPT !.pc = "done",
                        !.res = IF req.handler = "auth.me" /\ ~req.user.present
                                THEN Answer(401, "Unauthorized", "")
                                ELSE Answer(200, req.handler, "")]
  /\ UNCHANGED <<clockMs, clockSteps, access, env>>
  /\ UNCHANGED <<tokenVars, serverVars>>

\* next(err) reaches the global error handler.
VErrorHandler ==
  /\ req.pc = "error"
  /\ req' = [req EXCEPT !.pc = "done", !.res = errorHandler(req.err, env)]
  /\ UNCHANGED <<clockMs, clockSteps, access, env>>
  /\ UNCHANGED <<tokenVars, serverVars>>

\* The response has been sent.
VRespond ==
  /\ req.pc = "done"
  /\ req' = IdleReq
  /\ UNCHANGED <<clockMs, clockSteps, access, env>>
  /\ UNCHANGED <<tokenVars, serverVars>>

InitVerify ==
  /\ TokenInit
  /\ VerifyIdle
  /\ env \in Envs
  /\ ServerUp

NextVerify ==
  \/ VIssue
  \/ \E d \in {500, ACCESS_TTL * 1000 - 1000} : VAdvance(d)
  \/ \E line \in RequestLines, header \in Headers, device \in VerifyDevices :
       VRequest(line, header, device)
  \/ VCheckJwt
  \/ VBinding
  \/ VHandler
  \/ VErrorHandler
  \/ VRespond

SpecVerify == InitVerify /\ [][NextVerify]_vars

\* generateTokens for a request without device fingerprint: login and refresh
\* pass the placeholder 'unknown' (routes/auth.js:43, 72), which becomes the
\* fp claim of the access token.
VIssuePlaceholder ==
  /\ req.pc = "idle"
  /\ Cardinality(access) < MaxAccess
  /\ access' = access \cup {signAccessToken(1, FpString("unknown"), clockMs)}
  /\ UNCHANGED <<clockMs, clockSteps, req, env>>
  /\ UNCHANGED <<tokenVars, serverVars>>

NextBinding ==
  \/ NextVerify
  \/ VIssuePlaceholder

SpecBinding == InitVerify /\ [][NextBinding]_vars

Next ==
  \/ \E c \in Calls, email \in Emails, password \in Passwords,
        reqFp \in ReqFingerprints, bodyFp \in BodyFingerprints :
       LoginStart(c, email, password, reqFp, bodyFp)
  \/ \E c \in Calls : LoginFindUser(c)
  \/ \E c \in Calls, refreshToken \in Presentable, reqFp \in ReqFingerprints :
       RefreshStart(c, refreshToken, reqFp)
  \/ \E c \in Calls : RotateFind(c)
  \/ \E c \in Calls : RotateSave(c)
  \/ \E c \in Calls : TokenInsert(c)
  \/ \E c \in Calls, refreshToken \in Presentable :
       LogoutStart(c, refreshToken)
  \/ \E c \in Calls : LogoutUpdate(c)
  \/ \E c \in Calls : DbError(c)
  \/ \E c \in Calls : Respond(c)
  \/ Crash
  \/ Tick
  \/ TtlPurge

Spec == Init /\ [][Next]_vars

\* ------------------------------------------- GET /{provider}/callback
\* routes/auth.js:137-165 (google; github 169-197 and discord 200-228 are
\* the same): passport has verified the external identity and set req.user;
\* the fingerprint falls back to 'oauth-' + Date.now(), and generateTokens
\* runs up to its refreshToken.save().
OAuthCallback(c, user, reqFp) ==
  /\ UNCHANGED <<verifyVars, serverVars>>
  /\ FreeSlot(c)
  /\ hist.requests < MaxRequests
  /\ LET fingerprint == OrElse(reqFp, FpString("oauth-" \o ToString(now)))
         pair == generateTokens(user, fingerprint, randomCount + 1, now)
     IN calls' = [calls EXCEPT ![c] =
                    [@ EXCEPT !.op = "oauth", !.pc = "insert", !.user = user,
                              !.reqFp = reqFp, !.fingerprint = fingerprint,
                              !.noFp = reqFp = FpUndefined,
                              !.doc = pair.doc,
                              !.tokens = [accessToken |-> pair.accessToken,
                                          refreshToken |-> pair.refreshToken]]]
  /\ randomCount' = randomCount + 1
  /\ hist' = [hist EXCEPT !.requests = @ + 1]
  /\ UNCHANGED <<RefreshToken, now>>

\* generateTokens throws before its refreshToken.save(): the private key
\* cannot be read or the signing fails (auth.js:69-86).  In a rotation the
\* save of the consumed record has been applied (auth.js:122-126); in a login
\* the credentials have been accepted.  The route's catch calls next(err).
IssueThrows(c) ==
  /\ UNCHANGED <<verifyVars, serverVars>>
  /\ NoAnswerPending
  /\ LET call == calls[c]
     IN \/ /\ call.pc = "save"
           /\ HasDoc(call.existing.tokenHash)
           /\ RefreshToken' = saveConsumed(RefreshToken, call.existing)
           /\ Reply(c, [call EXCEPT !.fault = TRUE, !.writes = 1,
                                    !.flipped =
                                       Cardinality({d \in RefreshToken : ~d.consumed})
                                       - Cardinality({d \in saveConsumed(RefreshToken,
                                                                         call.existing) :
                                                        ~d.consumed})],
                    500, "Internal server error")
        \/ /\ call.pc = "findUser"
           /\ call.email \in Users /\ comparePassword(call.email, call.password)
           /\ UNCHANGED RefreshToken
           /\ Reply(c, [call EXCEPT !.fault = TRUE], 500, "Internal server error")
  /\ UNCHANGED <<now, randomCount, hist>>

\* The token routes together with the OAuth callbacks, with request bodies
\* whose refreshToken is not a string, and with a generateTokens that throws.
NextRoutes ==
  \/ Next
  \/ \E c \in Calls : IssueThrows(c)
  \/ \E c \in Calls, user \in Users, reqFp \in ReqFingerprints :
       OAuthCallback(c, user, reqFp)
  \/ \E c \in Calls, reqFp \in ReqFingerprints : RefreshStart(c, Wrapped, reqFp)
  \/ \E c \in Calls : LogoutStart(c, Wrapped)

SpecRoutes == Init /\ [][NextRoutes]_vars

\* ------------------------------------------------- the process from its start
\* server.js requires app.js, which requires middleware/auth.js: the module
\* evaluates jwtSecret; when that throws, the require fails and the process
\* exits before it listens.
Boot ==
  /\ server = "down"
  /\ server' = IF jwtSecret(keyConfig) = "throws" THEN "crashed" ELSE "up"
  /\ UNCHANGED <<keyConfig, rate, db>>
  /\ UNCHANGED <<tokenVars, verifyVars>>

\* What a starting process can find: records and access tokens of an earlier
\* run (a login on dev-A at time 0, its refresh token unconsumed or consumed).
EarlierDoc == generateTokens(1, FpObject("dev-A"), 1, 0).doc
StoreStates == {{}, {EarlierDoc}, {[EarlierDoc EXCEPT !.consumed = TRUE]}}

InitServe ==
  /\ RefreshToken \in StoreStates
  /\ now = 0
  /\ randomCount = Cardinality(RefreshToken)
  /\ calls = [c \in Calls |-> IdleCall]
  /\ hist = [requests |-> 0, issued |-> {},
             parent |-> [t \in RawTokens |-> NoToken],
             rotated |-> [t \in RawTokens |-> 0], loggedOut |-> {}]
  /\ clockMs \in {0, ACCESS_TTL * 1000}
  /\ clockSteps = 0
  /\ access \in {{}, {signAccessToken(1, FpObject("dev-A"), 0)}}
  /\ req = IdleReq
  /\ env \in Envs
  /\ keyConfig \in KeyConfigs
  /\ server = "down"
  /\ rate = NoHits
  /\ db = Connected

NextServe ==
  \/ Boot
  \/ \E line \in RequestLines, header \in Headers, device \in VerifyDevices :
       VRequest(line, header, device)
  \/ VCheckJwt
  \/ VBinding
  \/ VHandler
  \/ VErrorHandler
  \/ VRespond

SpecServe == InitServe /\ [][NextServe]_vars

\* ------------------------------------------------------------ rate limiters
\* app.use(path, fn): fn runs for the requests whose pathname begins with the
\* segments of path (compared without regard to case).
mounted(mount, path) ==
  /\ Len(path) >= Len(mount)
  /\ SubSeq(LowerPath(path), 1, Len(mount)) = mount

LoginPath == <<"api", "v1", "auth", "login">>
RatePaths == {LoginPath, <<"api", "auth", "login">>}

\* One request of the client address passes app.use('/api/', limiter) and
\* app.use('/api/auth/', strictLimiter) (part_008:543-544) and is answered.
\* express-rate-limit counts the request and answers 429 when the count
\* exceeds max; with skipSuccessfulRequests the count is taken back when the
\* response status is below 400.  POST /api/v1/auth/login answers 200 or 401
\* (good: the credentials are valid); a path with no route answers 404.
RateRequest(path, good) ==
  /\ server = "up"
  /\ rate.sent < MaxAttempts
  /\ LET general == IF mounted(LIMITER_MOUNT, path) THEN rate.general + 1 ELSE rate.general
         generalOk == general <= LIMITER_MAX(env)
         strictRuns == generalOk /\ mounted(STRICT_MOUNT, path)
         strict == IF strictRuns THEN rate.strict + 1 ELSE rate.strict
         strictOk == strict <= STRICT_MAX
         status == IF ~generalOk \/ ~strictOk THEN 429
                   ELSE IF route(POST(path)) = "auth.login"
                   THEN (IF good THEN 200 ELSE 401)
                   ELSE 404
     IN rate' = [general |-> general,
                 strict |-> IF strictRuns /\ status < 400 THEN strict - 1 ELSE strict,
                 sent |-> rate.sent + 1,
                 failedLogins |-> IF path = LoginPath /\ status = 401
                                  THEN rate.failedLogins + 1 ELSE rate.failedLogins,
                 windows |-> rate.windows,
                 lastPath |-> path, lastStatus |-> status,
                 lastFailedBefore |-> rate.failedLogins]
  /\ UNCHANGED <<keyConfig, server, db>>
  /\ UNCHANGED <<tokenVars, verifyVars>>

\* windowMs = 15 * 60 * 1000 (part_008:529, 538): the window ends and the
\* counts start again from zero.
RateWindow ==
  /\ rate.windows < MaxWindows
  /\ rate' = [rate EXCEPT !.general = 0, !.strict = 0, !.failedLogins = 0,
                          !.windows = @ + 1]
  /\ UNCHANGED <<keyConfig, server, db>>
  /\ UNCHANGED <<tokenVars, verifyVars>>

InitRate ==
  /\ TokenInit
  /\ VerifyIdle
  /\ env \in Envs
  /\ ServerUp

NextRate ==
  \/ \E path \in RatePaths, good \in BOOLEAN :
       (path = LoginPath \/ ~good) /\ RateRequest(path, good)
  \/ RateWindow

SpecRate == InitRate /\ [][NextRate]_vars

\* ---------------------------------------------------------------- connectDB
\* mongoose.connect resolves (part_004:78-84) after d milliseconds.
ConnectOk(d) ==
  /\ db.pc = "connecting"
  /\ db' = [db EXCEPT !.pc = "connected", !.retryCount = 0, !.elapsed = @ + d]
  /\ UNCHANGED <<keyConfig, server, rate>>
  /\ UNCHANGED <<tokenVars, verifyVars>>

\* mongoose.connect rejects after d milliseconds (at once when the connection
\* is refused, or when server selection times out): the catch block,
\* part_004:85-98, up to the await of the timer or to process.exit(1).
ConnectFail(d) ==
  /\ db.pc = "connecting"
  /\ IF mayRetry(db.retryCount)
     THEN db' = [db EXCEPT !.pc = "waiting", !.retryCount = @ + 1,
                           !.failed = @ + 1, !.elapsed = @ + d,
                           !.delays = Append(@, backoff(db.retryCount + 1))]
     ELSE db' = [db EXCEPT !.pc = "exited", !.exitCode = 1,
                           !.failed = @ + 1, !.elapsed = @ + d]
  /\ UNCHANGED <<keyConfig, server, rate>>
  /\ UNCHANGED <<tokenVars, verifyVars>>

\* The timer fires and connectDB() is called again (part_004:93-94).
RetryTimer ==
  /\ db.pc = "waiting"
  /\ db' = [db EXCEPT !.pc = "connecting",
                      !.elapsed = @ + db.delays[Len(db.delays)]]
  /\ UNCHANGED <<keyConfig, server, rate>>
  /\ UNCHANGED <<tokenVars, verifyVars>>

\* SIGINT or SIGTERM: gracefulShutdown closes the connection and exits with
\* code 0 (part_004:115-124).
Shutdown ==
  /\ db.pc \in {"connecting", "waiting", "connected"}
  /\ db' = [db EXCEPT !.pc = "exited", !.exitCode = 0]
  /\ UNCHANGED <<keyConfig, server, rate>>
  /\ UNCHANGED <<tokenVars, verifyVars>>

InitConnect ==
  /\ TokenInit
  /\ VerifyIdle
  /\ env \in Envs
  /\ keyConfig = LocalKey
  /\ server = "up"
  /\ rate = NoHits
  /\ db = ConnectStart

NextConnect ==
  \/ \E d \in {0, serverSelectionTimeoutMS} : ConnectOk(d)
  \/ \E d \in {0, serverSelectionTimeoutMS} : ConnectFail(d)
  \/ RetryTimer
  \/ Shutdown

SpecConnect == InitConnect /\ [][NextConnect]_vars

\* mongoose.connect settles (server selection times out after 5 s) and a
\* timer that was set fires.
FairConnect ==
  /\ WF_vars(\E d \in {0, serverSelectionTimeoutMS} : ConnectOk(d) \/ ConnectFail(d))
  /\ WF_vars(RetryTimer)

SpecConnectFair == SpecConnect /\ FairConnect

\* ================================================================ claims
Refreshes == {c \in Calls : calls[c].op = "refresh"}
Answered(c) == calls[c].pc = "done"
Invalid == Response(400, "Invalid refresh token")
\* the documents stored for a raw token (none or one)
DocsOf(token) == {d \in RefreshToken : d.tokenHash = hashToken(token)}
\* the unconsumed documents whose raw token was issued by a rotation of token
ValidSuccessors(token) ==
  {d \in RefreshToken : /\ ~d.consumed
                        /\ \E s \in RawTokens : /\ hist.parent[s] = token
                                                /\ d.tokenHash = hashToken(s)}

\* C1: once a rotation of T has returned a pair, a refresh with T that starts
\* afterwards never gets past the lookup, whatever its fingerprint, and is
\* answered 400 "Invalid refresh token" (500 only if the lookup itself
\* rejected, the storage failure of the error taxonomy).
C1_ReplayAfterRotationFails ==
  \A c \in Refreshes :
    calls[c].preRotated =>
      /\ calls[c].pc \in {"findOne", "done"}
      /\ Answered(c) =>
           IF calls[c].fault THEN calls[c].res.status = 500 ELSE calls[c].res = Invalid

C1_Witness ==
  \E c \in Refreshes :
    /\ Answered(c) /\ calls[c].preRotated /\ ~calls[c].fault
    /\ calls[c].seen.found /\ calls[c].seen.consumed
    /\ calls[c].res.status = 400

\* C2: for every raw token, at most one rotation ever returns a new pair,
\* also when two rotations of the same token run concurrently.
C2_AtMostOneRotationSucceeds ==
  \A t \in RawTokens : hist.rotated[t] <= 1

\* C3: a rotation of T never returns a pair once a logout of T has reported
\* success.
C3_NoPairAfterLogout ==
  \A c \in Refreshes :
    (Answered(c) /\ calls[c].res.status = 200) => ~calls[c].postLoggedOut

\* C4: a refresh whose fingerprint differs from the device stored in the
\* token's document is answered 400 "Invalid refresh token", also when the
\* document is unconsumed and unexpired; so a rotation succeeds only with the
\* stored device.
C4_DeviceBinding ==
  \A c \in Refreshes :
    calls[c].seen.mismatch => (Answered(c) /\ calls[c].res = Invalid)

C4_Witness ==
  \E c \in Refreshes :
    /\ Answered(c) /\ calls[c].res = Invalid
    /\ calls[c].seen.found /\ calls[c].seen.mismatch
    /\ ~calls[c].seen.consumed /\ ~calls[c].seen.expired

\* C5: a refresh that finds a document whose expiresAt is earlier than the
\* time of the check is rejected with status 400, whatever the consumed flag
\* and the fingerprint.
C5_ExpiredNeverRotated ==
  \A c \in Refreshes :
    calls[c].seen.expired => (Answered(c) /\ calls[c].res.status = 400)

C5_Witness ==
  \E c \in Refreshes :
    /\ Answered(c) /\ calls[c].res = Response(400, "Refresh token expired")
    /\ calls[c].seen.expired /\ ~calls[c].seen.consumed /\ ~calls[c].seen.mismatch

\* C6: a login that presents fingerprint F stores F's hash as the device of
\* the document it creates, and a refresh that finds its token's document
\* unconsumed, unexpired and with the presented device goes on to return a
\* new pair with the old document consumed (unless a database operation of
\* the call rejects, which is answered 500).
C6_LoginThenRefresh ==
  /\ \A c \in Calls :
       (calls[c].op = "login" /\ calls[c].pc = "insert" /\ calls[c].reqFp.kind = "object")
         => calls[c].doc.device = calls[c].reqFp.hash
  /\ \A c \in Refreshes :
       (/\ calls[c].seen.found /\ ~calls[c].seen.consumed
        /\ ~calls[c].seen.mismatch /\ ~calls[c].seen.expired)
         => \/ calls[c].pc \in {"save", "insert"}
            \/ Answered(c) /\ calls[c].fault /\ calls[c].res.status = 500
            \/ /\ Answered(c) /\ calls[c].res.status = 200
               /\ calls[c].tokens.refreshToken \in RawTokens \ {calls[c].token}
               /\ \A d \in DocsOf(calls[c].token) : d.consumed

C6_Witness ==
  \E c \in Refreshes :
    /\ Answered(c) /\ calls[c].res.status = 200
    /\ calls[c].fingerprint.kind = "object"
    /\ hist.parent[calls[c].token] = NoToken
    /\ \E d \in DocsOf(calls[c].token) :
         d.consumed /\ d.device = calls[c].fingerprint.hash

\* C7: after a logout with T has succeeded, every refresh with T and every
\* logout with T that starts later is rejected with status 400 (500 only if
\* its database operation rejected).
C7_RejectedAfterLogout ==
  \A c \in Calls :
    calls[c].preLoggedOut =>
      /\ calls[c].pc \in {"findOne", "findOneAndUpdate", "done"}
      /\ Answered(c) =>
           IF calls[c].fault THEN calls[c].res.status = 500
           ELSE calls[c].res = (IF calls[c].op = "refresh" THEN Invalid
                                ELSE Response(400, "Invalid or already consumed token"))

C7_Witness ==
  \E c \in Refreshes :
    /\ Answered(c) /\ calls[c].preLoggedOut /\ ~calls[c].preRotated
    /\ ~calls[c].fault /\ calls[c].res.status = 400

\* C8: no document issued by a rotation of T exists while T's document is
\* unconsumed, and the token of T together with the tokens issued by rotating
\* T never include two valid (stored, unconsumed) ones.
C8_NoTwoValidPairs ==
  \A t \in RawTokens :
    /\ (\E d \in DocsOf(t) : ~d.consumed) =>
         ~\E s \in RawTokens : hist.parent[s] = t /\ DocsOf(s) # {}
    /\ Cardinality({d \in DocsOf(t) : ~d.consumed} \cup ValidSuccessors(t)) <= 1

\* the ordering half of C8 alone: consumed is written before the successor
C8_ConsumedBeforeSuccessor ==
  \A t \in RawTokens :
    (\E d \in DocsOf(t) : ~d.consumed) =>
      ~\E s \in RawTokens : hist.parent[s] = t /\ DocsOf(s) # {}

\* C9: every rotation that returns a pair has turned exactly one document
\* from unconsumed to consumed and has added exactly one document.
C9_OneConsumedOneCreated ==
  \A c \in Refreshes :
    (Answered(c) /\ calls[c].res.status = 200) =>
      (calls[c].flipped = 1 /\ calls[c].created = 1)

\* C10: a refresh that fails has added no document, one that fails
\* validation (status 400) has written nothing at all, and no step ever turns
\* a consumed document back to unconsumed.
C10_FailedRotationFrame ==
  /\ [](\A c \in Refreshes :
          (Answered(c) /\ calls[c].res.status # 200) =>
            /\ calls[c].created = 0
            /\ calls[c].res.status = 400 => calls[c].writes = 0)
  /\ [][\A d \in RefreshToken : d.consumed =>
          \A e \in RefreshToken' : e.tokenHash = d.tokenHash => e.consumed]_vars

C10_Witness ==
  \E c \in Refreshes :
    /\ Answered(c) /\ calls[c].res.status = 400
    /\ calls[c].seen.found /\ calls[c].created = 0 /\ calls[c].writes = 0

\* C11: the tokenHash of every stored document is the hash of a raw token and
\* is no raw token that randomBytes has produced (the other fields are an
\* ObjectId, a device hash, a date and a boolean); a call that is about to
\* store a document stores the hash of the raw token it will return, and no
\* raw token is returned by two calls.
C11_NoPlaintextStored ==
  /\ \A d \in RefreshToken :
       /\ d.tokenHash \notin 1..randomCount
       /\ \E t \in 1..randomCount : d.tokenHash = hashToken(t)
  /\ \A c \in Calls :
       calls[c].pc = "insert" =>
         /\ calls[c].doc.tokenHash = hashToken(calls[c].tokens.refreshToken)
         /\ calls[c].doc.tokenHash # calls[c].tokens.refreshToken
  /\ \A c, d \in Calls :
       (c # d /\ calls[c].tokens.refreshToken # NoToken)
         => calls[c].tokens.refreshToken # calls[d].tokens.refreshToken

C11_Witness ==
  \E c \in Calls :
    /\ Answered(c) /\ calls[c].res.status = 200
    /\ calls[c].tokens.refreshToken \in hist.issued
    /\ \E d \in RefreshToken : d.tokenHash = hashToken(calls[c].tokens.refreshToken)

\* C12: a refresh whose lookup finds no document, a consumed document or a
\* document of another device gets one and the same response, status 400 with
\* message "Invalid refresh token", whichever of the three causes applies (and
\* whichever combination of them), and has written nothing.
C12_SameRejection ==
  \A c \in Refreshes :
    (/\ calls[c].seen.looked
     /\ ~calls[c].seen.found \/ calls[c].seen.consumed \/ calls[c].seen.mismatch)
      => /\ Answered(c)
         /\ calls[c].res = Invalid
         /\ calls[c].writes = 0 /\ calls[c].created = 0 /\ calls[c].flipped = 0

C12_Witness ==
  \E c \in Refreshes :
    /\ Answered(c) /\ calls[c].seen.looked /\ ~calls[c].seen.found
    /\ calls[c].res = Invalid
    /\ \E d \in RefreshToken : d.consumed

\* C20: the step in which a logout's findOneAndUpdate resolves answers 200
\* "Logged out successfully" exactly when the collection holds an unconsumed
\* document with the hash of the presented token, and then that document, and
\* no other, becomes consumed; otherwise it answers 400 "Invalid or already
\* consumed token" and the collection is unchanged.  So a second logout with
\* the same token fails.
C20_LogoutStep ==
  [][\A c \in Calls :
       (/\ calls[c].pc = "findOneAndUpdate"
        /\ calls'[c].pc = "done" /\ ~calls'[c].fault)
         => LET tokenHash == hashToken(calls[c].token)
                matching == {d \in RefreshToken : d.tokenHash = tokenHash /\ ~d.consumed}
            IN IF matching # {}
               THEN /\ calls'[c].res = Response(200, "Logged out successfully")
                    /\ RefreshToken' = (RefreshToken \ matching)
                                          \cup {[d EXCEPT !.consumed = TRUE] : d \in matching}
                    /\ Cardinality(matching) = 1
               ELSE /\ calls'[c].res = Response(400, "Invalid or already consumed token")
                    /\ RefreshToken' = RefreshToken]_vars

C20_Witness ==
  \E c \in Calls :
    /\ calls[c].op = "logout" /\ Answered(c) /\ ~calls[c].fault
    /\ calls[c].preLoggedOut
    /\ calls[c].res = Response(400, "Invalid or already consumed token")
    /\ \E d \in RefreshToken : d.consumed

\* ------------------------------------------- claims on request verification
\* the request has passed checkJwt, and checkJwt examined its bearer token
Examined ==
  /\ req.pc \notin {"idle", "checkJwt"}
  /\ ~req.skipped /\ req.header.kind = "bearer"
Accepted == req.auth.present
Rejected ==
  /\ ~req.auth.present /\ req.err.name = "UnauthorizedError"
  /\ req.pc \in {"error", "done"} /\ req.handler = ""
ExpiredAt(token, ms) == token.exp # NoExp /\ (ms \div 1000) >= token.exp

\* C13: checkJwt accepts a token only if its signature verifies under the
\* public key, its iss is the configured issuer, its aud the configured
\* audience and its exp has not elapsed at the time of the check; a token that
\* fails one of the four is rejected, whatever the other three are.
C13_AllFourChecks ==
  LET token == req.header.token
      sigOk == token.kind = "jwt" /\ token.alg = "RS256" /\ token.sig = "rsa-private"
      issOk == token.iss = ISSUER
      audOk == token.aud = AUDIENCE
      expOk == ~ExpiredAt(token, req.checkedAt)
  IN /\ Accepted => (Examined /\ sigOk /\ issOk /\ audOk /\ expOk)
     /\ (Examined /\ (~sigOk \/ ~issOk \/ ~audOk \/ ~expOk)) => Rejected

C13_Witness ==
  LET token == req.header.token
  IN /\ Examined /\ Rejected
     /\ token.alg = "RS256" /\ token.sig = "rsa-private"
     /\ token.iss # ISSUER /\ token.aud = AUDIENCE
     /\ ~ExpiredAt(token, req.checkedAt)

\* C14: a well-formed token with the right issuer and audience and unexpired
\* whose header names another algorithm than RS256 is rejected, also when its
\* signature is a valid HMAC keyed with the public key.
C14_AlgorithmPinned ==
  (Examined /\ req.header.token.kind = "jwt" /\ req.header.token.alg # "RS256")
    => (Rejected /\ req.err.code = "invalid_token")

C14_Witness ==
  LET token == req.header.token
  IN /\ Examined /\ Rejected
     /\ token.alg = "HS256" /\ token.sig = "hmac-public"
     /\ token.iss = ISSUER /\ token.aud = AUDIENCE
     /\ ~ExpiredAt(token, req.checkedAt)

\* C15 as stated: an access token signed at time t has exp = t + 15 minutes
\* (in the whole seconds of a JWT), is accepted at every time before t + 15
\* minutes and rejected at every time after.
C15_AcceptedUntilFifteenMinutes ==
  \A k \in access :
    (Examined /\ req.header.token = k) =>
      /\ k.exp = (k.at \div 1000) + ACCESS_TTL
      /\ req.checkedAt < k.at + ACCESS_TTL * 1000 => Accepted
      /\ req.checkedAt > k.at + ACCESS_TTL * 1000 => Rejected

\* C15 amended: iat is t truncated to whole seconds and exp = iat + 15
\* minutes; the token is accepted at every time up to t + 14m59s and rejected
\* at every time from t + 15 minutes on.
C15_AccessTokenLifetime ==
  \A k \in access :
    /\ k.iat = k.at \div 1000 /\ k.exp = k.iat + ACCESS_TTL
    /\ (Examined /\ req.header.token = k) =>
         /\ req.checkedAt <= k.at + (ACCESS_TTL - 1) * 1000 => Accepted
         /\ req.checkedAt >= k.at + ACCESS_TTL * 1000
              => (Rejected /\ req.verdict = "jwt expired")

C15_Witness ==
  \E k \in access :
    /\ Examined /\ req.header.token = k /\ Accepted
    /\ k.at % 1000 # 0
    /\ req.checkedAt = k.at + (ACCESS_TTL - 1) * 1000

\* C16: a handler outside the allow-list runs only for a request whose token
\* checkJwt has accepted and for which enforceTokenBinding has run and the
\* token's fp claim does not differ from the request's fingerprint.
C16_HandlerOnlyAfterVerification ==
  (req.pc = "handler" /\ req.handler \in ProtectedHandlers) =>
    /\ Accepted
    /\ req.bindingRan
    /\ ~(req.auth.fp # "" /\ req.auth.fp # deviceHash(req.fingerprint))

\* C17: a request to a path that checkJwt guards, without Authorization
\* header or with a header that is no Bearer credential, is answered 401 and
\* reaches no handler.
C17_MissingCredentials401 ==
  (/\ req.pc = "done" /\ ~req.skipped
   /\ req.header.kind \in {"absent", "badFormat", "badScheme"})
    => (req.res.status = 401 /\ req.handler = "")

\* C18: every request that checkJwt rejects is answered with status 401 and a
\* body that carries nothing of the failed check.
C18_UniformUnauthenticated ==
  (req.pc = "done" /\ req.err.name = "UnauthorizedError") =>
    /\ req.res.status = 401
    /\ req.res.details = ""
    /\ req.res.message # req.err.message

\* C19: once enforceTokenBinding has run, the request has been answered 401
\* "Token binding mismatch" exactly when the verified token's fp claim and
\* the request's fingerprint are both present and unequal.
C19_BindingEnforced ==
  req.bindingRan =>
    ((req.pc = "done" /\ req.res = Answer(401, "Token binding mismatch", ""))
      <=> (/\ req.auth.present /\ req.auth.fp # ""
           /\ deviceHash(req.fingerprint) # ""
           /\ req.auth.fp # deviceHash(req.fingerprint)))

C22_IssueAddsOneRecord ==
  [][\A c \in Calls :
       (calls[c].pc = "insert" /\ calls'[c].pc # "insert") =>
         IF calls'[c].pc = "done" /\ ~calls'[c].fault
         THEN \E d \in RefreshToken' :
                /\ d \notin RefreshToken
                /\ RefreshToken' = RefreshToken \cup {d}
                /\ d.tokenHash = hashToken(calls'[c].tokens.refreshToken)
                /\ d.tokenHash # calls'[c].tokens.refreshToken
                /\ d.user = calls'[c].tokens.accessToken.sub
                /\ d.device = deviceHash(calls[c].fingerprint)
                /\ d.expiresAt = calls'[c].tokens.accessToken.iat + REFRESH_TTL
                /\ ~d.consumed
         ELSE RefreshToken' = RefreshToken]_vars

C22_Witness ==
  \E c \in Calls :
    /\ Answered(c) /\ ~calls[c].fault
    /\ calls[c].created = 1
    /\ Cardinality(RefreshToken) >= 2
    /\ \E d \in DocsOf(calls[c].tokens.refreshToken) :
         ~d.consumed /\ d.expiresAt = now + REFRESH_TTL

\* C23: a stored record is written at most once, and that write takes
\* consumed from false to true: the save of a rotation and the update of a
\* logout find the record unconsumed, consumed never returns to false, and
\* tokenHash, user, device and expiresAt never change.
C23_WrittenOnce ==
  [][/\ \A d \in RefreshToken : \A e \in RefreshToken' :
          e.tokenHash = d.tokenHash =>
            /\ e.user = d.user /\ e.device = d.device /\ e.expiresAt = d.expiresAt
            /\ d.consumed => e.consumed
     /\ \A c \in Calls :
          \/ calls[c].pc = "save" /\ calls'[c].pc = "insert"
          \/ calls[c].pc = "findOneAndUpdate" /\ calls'[c].res.status = 200
          => \E d \in RefreshToken :
               /\ d.tokenHash = IF calls[c].op = "refresh"
                                THEN calls[c].existing.tokenHash
                                ELSE hashToken(calls[c].token)
               /\ ~d.consumed]_vars

\* C24: checkJwt and enforceTokenBinding neither read nor write the
\* RefreshToken collection: every step of the middleware chain leaves the
\* collection as it was, and what checkJwt and enforceTokenBinding decide is
\* determined by the request's path, Authorization header and fingerprint
\* and the clock, whatever the collection holds.
C24_VerificationIgnoresStore ==
  [][/\ RefreshToken' = RefreshToken
     /\ (req.pc = "checkJwt" /\ req'.pc # "checkJwt") =>
          LET r == checkJwt(req.line.path, req.header, clockMs)
          IN req'.auth = r.auth /\ req'.err = r.err /\ req'.verdict = r.verdict
     /\ (req.pc = "binding" /\ req'.pc # "binding") =>
          (req'.res = Answer(401, "Token binding mismatch", "")
             <=> bindingMismatch(req.user, req.fingerprint))]_vars

C24_Witness ==
  /\ \E d \in RefreshToken : d.consumed /\ d.user = req.auth.sub
  /\ req.auth.present
  /\ req.header.token \in access
  /\ req.pc = "done" /\ req.res.status = 200

\* C25: a refresh request whose token is missing or is not a string of 64
\* hexadecimal characters is answered 400 by the step that receives it: it
\* never reaches the lookup (only a well-formed token does), and the
\* collection is as it was.
C25_MalformedRejectedBeforeLookup ==
  [][\A c \in Calls :
       (calls[c].pc = "idle" /\ calls'[c].op = "refresh" /\ calls'[c].pc # "idle") =>
         /\ RefreshToken' = RefreshToken
         /\ IF calls'[c].pc = "done"
            THEN /\ calls'[c].res.status = 400
                 /\ ~calls'[c].seen.looked /\ calls'[c].writes = 0
            ELSE /\ calls'[c].pc = "findOne"
                 /\ calls'[c].token \notin {NoToken, Malformed, Wrapped}]_vars

C27_ExpiredNeverServed ==
  [][\A c \in Calls :
       LET expired == \E d \in RefreshToken :
                        d.tokenHash = hashToken(calls[c].token) /\ d.expiresAt < now
       IN /\ (calls[c].pc = "findOne" /\ calls'[c].pc \notin {"findOne", "idle"}
              /\ ~calls'[c].fault /\ expired) =>
               /\ calls'[c].pc = "done" /\ calls'[c].res = Invalid
               /\ RefreshToken' = RefreshToken
          /\ (calls[c].pc = "findOneAndUpdate"
              /\ calls'[c].pc \notin {"findOneAndUpdate", "idle"}
              /\ ~calls'[c].fault /\ expired) =>
               /\ calls'[c].res = Response(400, "Invalid or already consumed token")
               /\ RefreshToken' = RefreshToken]_vars

\* C28: from one client address, a login attempt that follows 5 failed
\* logins of the same 15-minute window is answered 429; before that, a login
\* is answered 401 or 200, and the successful ones are not counted.
C28_SixthFailedLoginLimited ==
  rate.lastPath = LoginPath =>
    IF rate.lastFailedBefore >= STRICT_MAX
    THEN rate.lastStatus = 429
    ELSE rate.lastStatus \in {200, 401}

\* C29: logins of the same user and device that are in progress at the same
\* time each get their own refresh token and record, and the access tokens
\* they return are pairwise distinct.
C29_ConcurrentLoginsDistinct ==
  \A c, d \in Calls :
    (/\ c # d
     /\ calls[c].op = "login" /\ calls[d].op = "login"
     /\ calls[c].tokens # NoTokens /\ calls[d].tokens # NoTokens
     /\ calls[c].tokens.accessToken.sub = calls[d].tokens.accessToken.sub
     /\ calls[c].fingerprint = calls[d].fingerprint) =>
      /\ calls[c].tokens.refreshToken # calls[d].tokens.refreshToken
      /\ calls[c].tokens.accessToken # calls[d].tokens.accessToken

\* C30: in a process configured with neither JWKS_URI nor a readable
\* keys/public.key, verification never accepts a token and no protected
\* handler is reached: the process never serves a request at all.
C30_FailsClosedWithoutKey ==
  (~keyConfig.jwksUri /\ ~keyConfig.publicKey) =>
    /\ server # "up"
    /\ req.pc = "idle"
    /\ ~req.auth.present
    /\ req.handler \notin ProtectedHandlers

C30_Witness ==
  /\ ~keyConfig.jwksUri /\ ~keyConfig.publicKey
  /\ server = "crashed"
  /\ access # {}

\* ------------------------------------------------------- claims on connectDB
\* C31: when connectDB gives up (process.exit(1)), exactly maxRetries = 5
\* connection attempts have failed.
C31_GivesUpAfterFiveAttempts ==
  (db.pc = "exited" /\ db.exitCode = 1) => db.failed = 5

\* C32: the waits before the retries of connectDB are, in order, 1 s, 2 s,
\* 4 s, 8 s and 16 s (the n-th is baseDelay * 2^(n-1) ms), and there is no
\* sixth.
C32_BackoffSequence ==
  /\ Len(db.delays) <= 5
  /\ db.delays = SubSeq(<<1000, 2000, 4000, 8000, 16000>>, 1, Len(db.delays))

C32_Witness ==
  /\ db.pc = "waiting"
  /\ db.delays = <<1000, 2000, 4000, 8000, 16000>>

\* C38: connectDB terminates, returning the connection or exiting the
\* process; retryCount stays within 0..maxRetries, and it is 0 whenever a
\* connection has been established.
C38_ConnectTerminates ==
  /\ [](db.retryCount \in 0..5)
  /\ [](db.pc = "connected" => db.retryCount = 0)
  /\ <>(db.pc \in {"connected", "exited"})

C38_Witness ==
  /\ db.pc = "connected"
  /\ db.failed = 5
  /\ db.retryCount = 0

\* ------------------------------------------------ claims on rotation, logout
\* C33: the step in which a rotation's lookup resolves decides in this order:
\* 400 "Invalid refresh token" if no record has the token's hash, or the
\* record is consumed, or its device is not the presented one; otherwise 400
\* "Refresh token expired" if expiresAt is earlier than the clock; otherwise
\* the rotation goes on to consume the record.  So an expired record that is
\* also consumed or of another device is answered "Invalid refresh token",
\* and a record whose expiresAt equals the clock is rotated.
C33_CheckOrder ==
  [][\A c \in Calls :
       (/\ calls[c].pc = "findOne" /\ calls'[c].pc \notin {"findOne", "idle"}
        /\ ~calls'[c].fault) =>
         LET docs == DocsOf(calls[c].token)
             invalid == \/ docs = {}
                        \/ \E d \in docs : \/ d.consumed
                                            \/ d.device # deviceHash(calls[c].fingerprint)
             expired == \E d \in docs : d.expiresAt < now
         IN IF invalid
            THEN calls'[c].pc = "done" /\ calls'[c].res = Invalid
            ELSE IF expired
            THEN /\ calls'[c].pc = "done"
                 /\ calls'[c].res = Response(400, "Refresh token expired")
            ELSE calls'[c].pc = "save"]_vars

C33_Witness ==
  \E c \in Refreshes :
    /\ Answered(c) /\ calls[c].res = Invalid
    /\ calls[c].seen.expired
    /\ calls[c].seen.consumed \/ calls[c].seen.mismatch

\* a rotation passed its checks on a record whose expiresAt is the clock
C33_BoundaryWitness ==
  \E c \in Refreshes :
    /\ calls[c].pc = "save"
    /\ calls[c].existing.expiresAt = now

\* C34: the record a rotation creates has the user and the device of the
\* record it consumed, and the access token it returns has that user as sub
\* and that device as fp; so the records of a rotation chain share one user
\* and one device.
C34_ChainKeepsOwnerAndDevice ==
  /\ \A s \in RawTokens :
       hist.parent[s] # NoToken =>
         \A d \in DocsOf(s), e \in DocsOf(hist.parent[s]) :
           d.user = e.user /\ d.device = e.device
  /\ \A c \in Refreshes :
       calls[c].tokens # NoTokens =>
         /\ calls[c].tokens.accessToken.sub = calls[c].existing.user
              \/ calls[c].pc = "done"
         /\ \A e \in DocsOf(calls[c].token) :
              /\ calls[c].tokens.accessToken.sub = e.user
              /\ calls[c].tokens.accessToken.fp = e.device
              /\ calls[c].pc = "insert" =>
                   calls[c].doc.user = e.user /\ calls[c].doc.device = e.device

C34_Witness ==
  \E s \in RawTokens :
    /\ hist.parent[s] # NoToken
    /\ hist.parent[hist.parent[s]] # NoToken
    /\ \E d \in DocsOf(s), e \in DocsOf(hist.parent[s]),
          f \in DocsOf(hist.parent[hist.parent[s]]) :
         d.device = f.device /\ e.consumed /\ f.consumed /\ ~d.consumed

\* C35: when a rotation has saved its record as consumed and the issuance
\* that follows fails (key read, signing, or the save of the new record), the
\* call is answered 500 without another attempt, the record (unless the TTL
\* index has removed it meanwhile) is stored as consumed and no record is
\* added; consumed records stay consumed, and a later
\* refresh whose lookup finds the record consumed (or gone) is answered 400
\* "Invalid refresh token".
C35_NoRollback ==
  [][/\ \A c \in Calls :
          /\ (/\ calls[c].op = "refresh" /\ calls[c].pc \in {"save", "insert"}
              /\ calls'[c].pc = "done" /\ calls'[c].fault /\ calls'[c].writes >= 1) =>
               /\ calls'[c].res.status = 500
               /\ DocsOf(calls[c].token) # {} =>
                    \E d \in RefreshToken' :
                      d.tokenHash = hashToken(calls[c].token) /\ d.consumed
               /\ Cardinality(RefreshToken') = Cardinality(RefreshToken)
               /\ {d.tokenHash : d \in RefreshToken'} = {d.tokenHash : d \in RefreshToken}
          /\ (/\ calls[c].pc = "findOne" /\ calls'[c].pc \notin {"findOne", "idle"}
              /\ ~calls'[c].fault
              /\ \A d \in DocsOf(calls[c].token) : d.consumed) =>
               /\ calls'[c].pc = "done" /\ calls'[c].res = Invalid
               /\ RefreshToken' = RefreshToken
     /\ \A d \in RefreshToken : \A e \in RefreshToken' :
          (d.consumed /\ e.tokenHash = d.tokenHash) => e.consumed]_vars

C35_Witness ==
  \E c \in Refreshes :
    /\ Answered(c) /\ calls[c].fault /\ calls[c].writes = 1 /\ calls[c].flipped = 1
    /\ calls[c].res.status = 500
    /\ \E t \in hist.issued :
         /\ hist.rotated[t] = 0 /\ t \notin hist.loggedOut
         /\ ValidSuccessors(t) = {}
         /\ \E d \in DocsOf(t) : d.consumed

\* C36: for any raw refresh token at most one logout ever reports success,
\* whatever the interleaving: a logout that answers "Logged out successfully"
\* for a token is never preceded by a successful logout of the same token, and
\* after it no stored record of that token is unconsumed, so a logout whose
\* update runs later (even one that started earlier) is answered 400.
C36_OneLogoutSucceeds ==
  [][\A c \in Calls :
       (/\ calls[c].op = "logout" /\ calls[c].pc = "findOneAndUpdate"
        /\ calls'[c].pc = "done" /\ ~calls'[c].fault)
         => /\ calls'[c].res.status = 200 =>
                 /\ calls[c].token \notin hist.loggedOut
                 /\ \A d \in RefreshToken' :
                      d.tokenHash = hashToken(calls[c].token) => d.consumed
            /\ calls[c].token \in hist.loggedOut => calls'[c].res.status = 400]_vars

\* Two logouts of one issued, never rotated token are in flight together and
\* the update of one has succeeded while the other has yet to run its own.
C36_Witness ==
  \E c \in Calls :
    /\ calls[c].op = "logout" /\ calls[c].pc = "findOneAndUpdate"
    /\ ~calls[c].preLoggedOut /\ ~calls[c].preRotated
    /\ calls[c].token \in hist.issued
    /\ hist.rotated[calls[c].token] = 0
    /\ calls[c].token \in hist.loggedOut
    /\ \A d \in DocsOf(calls[c].token) : d.consumed
    /\ DocsOf(calls[c].token) # {}

====
